---- MODULE Spec2Model ----
(***************************************************************************)
(* BitbucketService (src/unnamed/part_000): the Bitbucket adapter of the   *)
(* git-service layer.  One adapter instance is constructed from a          *)
(* GitSource; its public operations each build one URL, call fetchJson and *)
(* map the outcome of that single request to a result.                     *)
(*                                                                         *)
(* Strings the code takes apart (paths, URLs) are sequences of tokens;     *)
(* strings that are base64-coded are sequences of character codes.         *)
(* JavaScript values are records tagged by their type in field t.          *)
(***************************************************************************)
EXTENDS Integers, Sequences, FiniteSets, TLC

\* How many calls of the adapter may be awaiting their response at once.
MaxCalls == 2

----------------------------------------------------------------------------
\* JavaScript values

Undefined == [t |-> "undefined"]
Null == [t |-> "null"]
Str(s) == [t |-> "string", v |-> s]
Bool(b) == [t |-> "boolean", v |-> b]
Arr(s) == [t |-> "array", v |-> s]
Obj(f) == [t |-> "object", v |-> f]
\* A built-in method read as a property (Array.prototype.values).
Builtin(n) == [t |-> "function", v |-> n]
\* An Error instance (TypeError, SyntaxError): it has no `status` property.
ErrorValue(n) == [t |-> "error", v |-> n]
\* The Response object fetchJson throws when !response.ok.
ResponseValue(status) == [t |-> "response", v |-> status]

IsNullish(x) == x.t \in {"undefined", "null"}
\* `a || b` on a value that is a string or undefined: '' and undefined are falsy.
Falsy(x) == IsNullish(x) \/ (x.t = "string" /\ x.v = <<>>)
\* `${x}` inside a template literal.
ToTemplate(x) == IF x.t = "string" THEN x.v ELSE <<x.t>>

\* a === b
StrictEquals(a, b) == a.t = b.t /\ a = b

\* A completion of an evaluation: a value, or a thrown value.
Normal(x) == [threw |-> FALSE, val |-> x]
Throw(e) == [threw |-> TRUE, val |-> e]

\* x[name] for the property names the adapter reads.  Reading a property of
\* null or undefined throws a TypeError; a string has none of these
\* properties; an array has the built-in method `values`.
GetProp(x, name) ==
  IF IsNullish(x) THEN Throw(ErrorValue("TypeError"))
  ELSE IF x.t = "object"
    THEN Normal(IF name \in DOMAIN x.v THEN x.v[name] ELSE Undefined)
  ELSE IF x.t = "array" /\ name = "values"
    THEN Normal(Builtin("Array.prototype.values"))
  ELSE Normal(Undefined)

----------------------------------------------------------------------------
\* js-base64, on sequences of character codes (ASCII text).

Pad == 61

B64Char(i) ==
  IF i < 26 THEN 65 + i
  ELSE IF i < 52 THEN 97 + (i - 26)
  ELSE IF i < 62 THEN 48 + (i - 52)
  ELSE IF i = 62 THEN 43 ELSE 47

\* The sextet a character stands for, -1 for a character outside the alphabet
\* ('-' and '_' are the URL-safe spellings of '+' and '/').
B64Index(c) ==
  IF c >= 65 /\ c <= 90 THEN c - 65
  ELSE IF c >= 97 /\ c <= 122 THEN c - 97 + 26
  ELSE IF c >= 48 /\ c <= 57 THEN c - 48 + 52
  ELSE IF c = 43 \/ c = 45 THEN 62
  ELSE IF c = 47 \/ c = 95 THEN 63
  ELSE -1

RECURSIVE Base64Encode(_)
Base64Encode(b) ==
  IF Len(b) = 0 THEN <<>>
  ELSE IF Len(b) = 1 THEN
    <<B64Char(b[1] \div 4), B64Char((b[1] % 4) * 16), Pad, Pad>>
  ELSE IF Len(b) = 2 THEN
    <<B64Char(b[1] \div 4), B64Char((b[1] % 4) * 16 + b[2] \div 16),
      B64Char((b[2] % 16) * 4), Pad>>
  ELSE
    <<B64Char(b[1] \div 4), B64Char((b[1] % 4) * 16 + b[2] \div 16),
      B64Char((b[2] % 16) * 4 + b[3] \div 64), B64Char(b[3] % 64)>>
      \o Base64Encode(SubSeq(b, 4, Len(b)))

\* The sextets of the characters of the alphabet, the others dropped.
RECURSIVE Sextets(_)
Sextets(s) ==
  IF Len(s) = 0 THEN <<>>
  ELSE IF B64Index(s[1]) < 0 THEN Sextets(Tail(s))
  ELSE <<B64Index(s[1])>> \o Sextets(Tail(s))

RECURSIVE SextetsToBytes(_)
SextetsToBytes(x) ==
  IF Len(x) < 2 THEN <<>>
  ELSE IF Len(x) = 2 THEN <<x[1] * 4 + x[2] \div 16>>
  ELSE IF Len(x) = 3 THEN
    <<x[1] * 4 + x[2] \div 16, (x[2] % 16) * 16 + x[3] \div 4>>
  ELSE
    <<x[1] * 4 + x[2] \div 16, (x[2] % 16) * 16 + x[3] \div 4,
      (x[3] % 4) * 64 + x[4]>> \o SextetsToBytes(SubSeq(x, 5, Len(x)))

Base64Decode(s) == SextetsToBytes(Sextets(s))

----------------------------------------------------------------------------
\* The GitSource descriptors an adapter is constructed from.

Colon == 58
\* 'Basic ' as character codes.
BasicPrefix == <<66, 97, 115, 105, 99, 32>>

\* Text as character codes.
TextUser == <<117, 115, 101, 114>>
TextPass == <<112, 97, 115, 115>>
TextA == <<97>>
TextAb == <<97, 98>>
TextXyz == <<120, 121, 122>>

SaaSHost == "bitbucket.org"

RepoURL(host) == <<"https://", host, "/", "org", "/", "repo">>

\* The stored secret holds the user name and password base64-encoded.
BasicSecret(user, pass) ==
  Obj([username |-> Base64Encode(user), password |-> Base64Encode(pass)])

GitSources ==
  { [url |-> RepoURL(SaaSHost), ref |-> Undefined, contextDir |-> Undefined,
     devfilePath |-> Undefined, dockerfilePath |-> Undefined,
     secretType |-> "undefined", secretContent |-> Undefined],
    [url |-> RepoURL(SaaSHost), ref |-> Str(<<"main">>),
     contextDir |-> Str(<<"app", "/">>),
     devfilePath |-> Str(<<"devfile.yaml">>),
     dockerfilePath |-> Str(<<"Dockerfile">>),
     secretType |-> "BASIC_AUTH", secretContent |-> BasicSecret(TextUser, TextPass)],
    [url |-> RepoURL(SaaSHost), ref |-> Str(<<>>), contextDir |-> Str(<<>>),
     devfilePath |-> Str(<<"devfile.yaml">>),
     dockerfilePath |-> Str(<<"docker", "/", "Dockerfile">>),
     secretType |-> "BASIC_AUTH", secretContent |-> BasicSecret(TextAb, TextXyz)],
    [url |-> RepoURL("git.example.com"), ref |-> Str(<<"main">>),
     contextDir |-> Str(<<"app">>),
     devfilePath |-> Str(<<"devfile.yaml">>),
     dockerfilePath |-> Str(<<"Dockerfile">>),
     secretType |-> "BASIC_AUTH", secretContent |-> BasicSecret(TextA, <<>>)],
    [url |-> RepoURL("git.example.com"), ref |-> Undefined,
     contextDir |-> Str(<<"/">>),
     devfilePath |-> Undefined, dockerfilePath |-> Str(<<"Dockerfile">>),
     secretType |-> "BASIC_AUTH", secretContent |-> Undefined],
    [url |-> RepoURL("www.bitbucket.org"), ref |-> Undefined,
     contextDir |-> Undefined,
     devfilePath |-> Undefined, dockerfilePath |-> Undefined,
     secretType |-> "SSH_AUTH", secretContent |-> Obj([sshkey |-> <<>>])] }

\* parse-bitbucket-url, on a URL already cut into its components.
ParseBitbucketUrl(url) == [host |-> url[2], owner |-> url[4], name |-> url[6]]

\* s.replace(/\/$/, '')
StripTrailingSlash(s) ==
  IF Len(s) > 0 /\ s[Len(s)] = "/" THEN SubSeq(s, 1, Len(s) - 1) ELSE s

\* s.replace(/^\//, '')
StripLeadingSlash(s) ==
  IF Len(s) > 0 /\ s[1] = "/" THEN Tail(s) ELSE s

getRepoMetadata(gs) ==
  LET parsed == ParseBitbucketUrl(gs.url)
      stripped == IF IsNullish(gs.contextDir) THEN Undefined
                  ELSE Str(StripTrailingSlash(gs.contextDir.v))
  IN [repoName |-> parsed.name,
      owner |-> parsed.owner,
      host |-> parsed.host,
      defaultBranch |-> IF Falsy(gs.ref) THEN <<"HEAD">> ELSE gs.ref.v,
      contextDir |-> IF Falsy(stripped) THEN <<>> ELSE stripped.v,
      devfilePath |-> gs.devfilePath,
      dockerfilePath |-> gs.dockerfilePath]

SaaSBaseURL == <<"https://api.bitbucket.org/2.0">>
ServerBaseURL(host) == <<"https://", host, "/rest/api/1.0">>

\* A faulty variant of the constructor's decision: any host of the SaaS domain
\* counts as the SaaS host.
HostIsServerByDomain(host) == host \notin {SaaSHost, "www.bitbucket.org"}

\* The constructor's decision: self-hosted iff the parsed host is not the SaaS host.
HostIsServer(host) == host # SaaSHost

----------------------------------------------------------------------------
VARIABLES gitsource, metadata, baseURL, isServer, calls, ret

vars == <<gitsource, metadata, baseURL, isServer, calls, ret>>
config == <<gitsource, metadata, baseURL, isServer>>

Slots == 1..MaxCalls

\* A faulty variant of getAuthProvider: the stored values are joined without
\* being decoded first.
AuthProviderUndecoded(gs) ==
  IF gs.secretType = "BASIC_AUTH" THEN
    IF IsNullish(gs.secretContent) THEN Throw(ErrorValue("TypeError"))
    ELSE Normal(Obj([Authorization |->
           BasicPrefix \o Base64Encode(gs.secretContent.v.username \o <<Colon>>
                                         \o gs.secretContent.v.password)]))
  ELSE Normal(Null)

\* getAuthProvider: the auth headers of the descriptor, null for any secret
\* type other than basic auth.  Destructuring an absent secretContent throws.
AuthProviderOf(gs) ==
  IF gs.secretType = "BASIC_AUTH" THEN
    IF IsNullish(gs.secretContent) THEN Throw(ErrorValue("TypeError"))
    ELSE LET username == gs.secretContent.v.username
             password == gs.secretContent.v.password
             encodedAuth == Base64Encode(Base64Decode(username) \o <<Colon>>
                                           \o Base64Decode(password))
         IN Normal(Obj([Authorization |-> BasicPrefix \o encodedAuth]))
  ELSE Normal(Null)

getAuthProvider == AuthProviderOf(gitsource)

\* { Accept: 'application/json', ...authHeaders }: spreading null adds nothing.
RequestHeaders(authHeaders) ==
  LET accept == [Accept |-> "application/json"]
  IN IF authHeaders.t = "object"
       THEN [k \in DOMAIN accept \cup DOMAIN authHeaders.v |->
               IF k \in DOMAIN authHeaders.v THEN authHeaders.v[k] ELSE accept[k]]
       ELSE accept

\* fetchJson up to its await: the request it sends, none when deriving the
\* auth headers threw.
fetchJsonRequest(url) ==
  LET authHeaders == getAuthProvider
  IN IF authHeaders.threw THEN [sent |-> FALSE]
     ELSE [sent |-> TRUE, url |-> url, headers |-> RequestHeaders(authHeaders.val)]

----------------------------------------------------------------------------
\* What the network can answer to one request.

BodyNull == "null"
BodyEmptyObject == "{}"
BodyRepo == "{\"slug\":\"repo\",\"language\":\"java\"}"
BodyOtherRepo == "{\"slug\":\"other\"}"
BodyBranches == "{\"values\":[{\"name\":\"main\"},{\"name\":\"dev\"}]}"
BodyCloudFiles == "{\"values\":[{\"path\":\"Dockerfile\"},{\"path\":\"src\"}]}"
BodyServerFiles == "{\"values\":[\"Dockerfile\",\"src\"]}"
BodyNullEntry == "{\"values\":[null]}"
BodyArray == "[]"
BodyDockerfile == "FROM node"

Bodies ==
  { BodyNull, BodyEmptyObject, BodyRepo, BodyOtherRepo, BodyBranches,
    BodyCloudFiles, BodyServerFiles, BodyNullEntry, BodyArray, BodyDockerfile }

\* The Content-Type header of a response, "" when the response has none.
ContentTypes == { "text/plain", "application/json" }
OtherContentTypes == { "text/plain; charset=utf-8", "" }

FailStatuses == { 304, 401, 403, 404, 429, 500 }

Response(status, contentType, body) ==
  [kind |-> "response", status |-> status, contentType |-> contentType, body |-> body]

\* fetch() rejects (no response at all), or resolves with a response.
Rejected == [kind |-> "rejected", status |-> 0, contentType |-> "", body |-> ""]
\* No fetch was made: deriving the request failed before it.
NoFetch == [kind |-> "none", status |-> 0, contentType |-> "", body |-> ""]
Responses ==
  { Response(200, ct, b) : ct \in ContentTypes, b \in Bodies }
    \cup { Response(200, ct, b) : ct \in OtherContentTypes, b \in {BodyRepo, BodyDockerfile} }
    \cup { Response(201, ct, b) : ct \in ContentTypes, b \in {BodyRepo, BodyDockerfile} }
    \cup { Response(st, "application/json", BodyEmptyObject) : st \in FailStatuses }
Outcomes == {Rejected} \cup Responses

\* response.ok
ResponseOk(o) == o.kind = "response" /\ o.status >= 200 /\ o.status <= 299

\* JSON.parse on the bodies above; a SyntaxError for text that is not JSON.
JSONParse(text) ==
  CASE text = BodyNull -> Normal(Null)
    [] text = BodyEmptyObject -> Normal(Obj(<<>>))
    [] text = BodyRepo ->
         Normal(Obj([slug |-> Str(<<"repo">>), language |-> Str(<<"java">>)]))
    [] text = BodyOtherRepo -> Normal(Obj([slug |-> Str(<<"other">>)]))
    [] text = BodyBranches ->
         Normal(Obj([values |-> Arr(<<Obj([name |-> Str(<<"main">>)]),
                                      Obj([name |-> Str(<<"dev">>)])>>)]))
    [] text = BodyCloudFiles ->
         Normal(Obj([values |-> Arr(<<Obj([path |-> Str(<<"Dockerfile">>)]),
                                      Obj([path |-> Str(<<"src">>)])>>)]))
    [] text = BodyServerFiles ->
         Normal(Obj([values |-> Arr(<<Str(<<"Dockerfile">>), Str(<<"src">>)>>)]))
    [] text = BodyNullEntry -> Normal(Obj([values |-> Arr(<<Null>>)]))
    [] text = BodyArray -> Normal(Arr(<<>>))
    [] OTHER -> Throw(ErrorValue("SyntaxError"))

\* What `await this.fetchJson(url)` completes with, given the request that
\* was (or was not) sent and the outcome of the fetch.
fetchJson(req, o) ==
  IF ~req.sent THEN Throw(ErrorValue("TypeError"))
  ELSE IF o.kind = "rejected" THEN Throw(ErrorValue("TypeError"))
  ELSE IF ~ResponseOk(o) THEN Throw(ResponseValue(o.status))
  ELSE IF o.contentType = "text/plain" THEN Normal(Str(<<o.body>>))
  ELSE JSONParse(o.body)

\* e.status of a caught value: only a Response has one.
StatusOf(e) == IF e.t = "response" THEN e.v ELSE 0

\* arr.map((x) => x[name]); reading a property of a null entry throws.
RECURSIVE MapProp(_, _)
MapProp(entries, name) ==
  IF Len(entries) = 0 THEN Normal(<<>>)
  ELSE LET first == GetProp(entries[1], name)
           rest == MapProp(Tail(entries), name)
       IN IF first.threw THEN first
          ELSE IF rest.threw THEN rest
          ELSE Normal(<<first.val>> \o rest.val)

\* x.map((e) => e[name]): a TypeError unless x is an array.
CallMap(x, name) ==
  IF x.t = "array"
    THEN LET m == MapProp(x.v, name)
         IN IF m.threw THEN m ELSE Normal(Arr(m.val))
    ELSE Throw(ErrorValue("TypeError"))

----------------------------------------------------------------------------
\* Request URLs.

RepoResourceURL ==
  IF isServer
    THEN baseURL \o <<"/projects/", metadata.owner, "/repos/", metadata.repoName>>
    ELSE baseURL \o <<"/repositories/", metadata.owner, "/", metadata.repoName>>

isRepoReachableURL == RepoResourceURL

getRepoBranchListURL ==
  IF isServer
    THEN baseURL \o <<"/projects/", metadata.owner, "/repos/", metadata.repoName,
                      "/branches">>
    ELSE baseURL \o <<"/repositories/", metadata.owner, "/", metadata.repoName,
                      "/refs/branches">>

\* isServerURL(isServer, specificPath?): the flag is the caller's argument.
isServerURL(server, specificPath) ==
  IF ~Falsy(specificPath)
    THEN IF server
      THEN baseURL \o <<"/projects/", metadata.owner, "/repos/", metadata.repoName,
                        "/files/">> \o metadata.contextDir \o <<"/">>
             \o specificPath.v \o <<"?limit=50&at=">> \o metadata.defaultBranch
      ELSE baseURL \o <<"/repositories/", metadata.owner, "/", metadata.repoName,
                        "/src/">> \o metadata.defaultBranch \o <<"/">>
             \o metadata.contextDir \o <<"/">> \o specificPath.v \o <<"?pagelen=50">>
    ELSE IF server
      THEN baseURL \o <<"/projects/", metadata.owner, "/repos/", metadata.repoName,
                        "/files/">> \o metadata.contextDir
             \o <<"?limit=50&at=">> \o metadata.defaultBranch
      ELSE baseURL \o <<"/repositories/", metadata.owner, "/", metadata.repoName,
                        "/src/">> \o metadata.defaultBranch \o <<"/">>
             \o metadata.contextDir \o <<"?pagelen=50">>

\* params?.specificPath
SpecificPathOf(params) ==
  IF IsNullish(params) THEN Undefined ELSE GetProp(params, "specificPath").val

getRepoFileListURL(params) ==
  IF ~Falsy(SpecificPathOf(params))
    THEN isServerURL(isServer, SpecificPathOf(params))
    ELSE isServerURL(isServer, Undefined)

getRepoLanguageListURL == RepoResourceURL

RawFileURL(path) ==
  LET filePath == StripLeadingSlash(path)
  IN IF isServer
       THEN baseURL \o <<"/projects/", metadata.owner, "/repos/", metadata.repoName,
                         "/raw/">> \o filePath \o <<"?at=">> \o metadata.defaultBranch
       ELSE baseURL \o <<"/repositories/", metadata.owner, "/", metadata.repoName,
                         "/src/">> \o metadata.defaultBranch \o <<"/">> \o filePath

isFilePresentURL(path) == RawFileURL(path)
getFileContentURL(path) == RawFileURL(path)

----------------------------------------------------------------------------
\* The operations after their await: c is what fetchJson completed with.

RepoStatus(n) == [t |-> "RepoStatus", v |-> n]

\* A faulty variant of the catch block: 401 is taken for a private repository.
isRepoReachableCatchUnauthorized(e) ==
  CASE StatusOf(e) = 429 -> RepoStatus("RateLimitExceeded")
    [] StatusOf(e) \in {401, 403} -> RepoStatus("PrivateRepo")
    [] StatusOf(e) = 404 -> RepoStatus("ResourceNotFound")
    [] OTHER -> RepoStatus("InvalidGitTypeSelected")

\* The catch block of isRepoReachable.
isRepoReachableCatch(e) ==
  CASE StatusOf(e) = 429 -> RepoStatus("RateLimitExceeded")
    [] StatusOf(e) = 403 -> RepoStatus("PrivateRepo")
    [] StatusOf(e) = 404 -> RepoStatus("ResourceNotFound")
    [] OTHER -> RepoStatus("InvalidGitTypeSelected")

isRepoReachableThen(c) ==
  IF c.threw THEN Normal(isRepoReachableCatch(c.val))
  ELSE LET slug == GetProp(c.val, "slug")
       IN IF slug.threw THEN Normal(isRepoReachableCatch(slug.val))
          ELSE IF StrictEquals(slug.val, Str(<<metadata.repoName>>))
            THEN Normal(RepoStatus("Reachable"))
            ELSE Normal(RepoStatus("Unreachable"))

getRepoBranchListThen(c) ==
  LET empty == Normal(Obj([branches |-> Arr(<<>>)]))
  IN IF c.threw THEN empty
     ELSE LET values == GetProp(c.val, "values")
          IN IF values.threw THEN empty
             ELSE LET list == CallMap(values.val, "name")
                  IN IF list.threw THEN empty
                     ELSE Normal(Obj([branches |-> list.val]))

getRepoFileListThen(c) ==
  LET empty == Normal(Obj([files |-> Arr(<<>>)]))
  IN IF c.threw THEN empty
     ELSE LET values == GetProp(c.val, "values")
          IN IF values.threw THEN empty
             ELSE IF isServer THEN Normal(Obj([files |-> values.val]))
             ELSE IF IsNullish(values.val) THEN empty
             ELSE LET paths == CallMap(values.val, "path")
                  IN IF paths.threw THEN empty
                     ELSE Normal(Obj([files |-> paths.val]))

getRepoLanguageListThen(c) ==
  LET empty == Normal(Obj([languages |-> Arr(<<>>)]))
  IN IF c.threw THEN empty
     ELSE LET language == GetProp(c.val, "language")
          IN IF language.threw THEN empty
             ELSE Normal(Obj([languages |-> Arr(<<language.val>>)]))

isFilePresentThen(c) == IF c.threw THEN Normal(Bool(FALSE)) ELSE Normal(Bool(TRUE))

getFileContentThen(c) == IF c.threw THEN Normal(Null) ELSE Normal(c.val)

\* The completion of operation op once its fetchJson has completed with c.
OpThen(op, c) ==
  CASE op = "isRepoReachable" -> isRepoReachableThen(c)
    [] op = "getRepoBranchList" -> getRepoBranchListThen(c)
    [] op = "getRepoFileList" -> getRepoFileListThen(c)
    [] op = "getRepoLanguageList" -> getRepoLanguageListThen(c)
    [] op = "isFilePresent" -> isFilePresentThen(c)
    [] op = "getFileContent" -> getFileContentThen(c)

----------------------------------------------------------------------------
\* The adapter as a state machine.

\* Paths and parameters the callers pass.
Paths == { <<"/", "pom.xml">> }
FileListParams ==
  { Undefined, Obj([specificPath |-> Str(<<"src">>)]), Obj([specificPath |-> Str(<<>>)]) }

Idle == [st |-> "idle"]
Returned == [st |-> "returned"]
NoReturn == [op |-> "none"]

\* The state after `new BitbucketService(gitsource)`.
constructor(gs) ==
  /\ gitsource = gs
  /\ metadata = getRepoMetadata(gs)
  /\ isServer = HostIsServer(getRepoMetadata(gs).host)
  /\ baseURL = IF HostIsServer(getRepoMetadata(gs).host)
                 THEN ServerBaseURL(getRepoMetadata(gs).host)
                 ELSE SaaSBaseURL

Init ==
  /\ \E gs \in GitSources : constructor(gs)
  /\ calls = [i \in Slots |-> Idle]
  /\ ret = NoReturn

\* An operation runs up to the await of its fetch: the request is on its way.
Issue(i, op, arg, url) ==
  /\ ret = NoReturn
  /\ calls[i].st = "idle"
  /\ \A j \in Slots : j < i => calls[j].st # "idle"
  /\ calls' = [calls EXCEPT ![i] =
                 [st |-> "pending", op |-> op, arg |-> arg, req |-> fetchJsonRequest(url)]]
  /\ UNCHANGED <<config, ret>>

isRepoReachable(i) == Issue(i, "isRepoReachable", Undefined, isRepoReachableURL)

getRepoBranchList(i) == Issue(i, "getRepoBranchList", Undefined, getRepoBranchListURL)

getRepoFileList(i) ==
  \E params \in FileListParams :
    Issue(i, "getRepoFileList", params, getRepoFileListURL(params))

getRepoLanguageList(i) ==
  Issue(i, "getRepoLanguageList", Undefined, getRepoLanguageListURL)

isFilePresentCall(i, path) == Issue(i, "isFilePresent", Str(path), isFilePresentURL(path))

getFileContentCall(i, path) == Issue(i, "getFileContent", Str(path), getFileContentURL(path))

isFilePresent(i) == \E path \in Paths : isFilePresentCall(i, path)

getFileContent(i) == \E path \in Paths : getFileContentCall(i, path)

isDockerfilePresent(i) ==
  isFilePresentCall(i, metadata.contextDir \o <<"/">> \o ToTemplate(metadata.dockerfilePath))

isTektonFolderPresent(i) ==
  isFilePresentCall(i, metadata.contextDir \o <<"/">> \o <<".tekton">>)

getDockerfileContent(i) ==
  getFileContentCall(i, metadata.contextDir \o <<"/">> \o ToTemplate(metadata.dockerfilePath))

isDevfilePresent(i) ==
  isFilePresentCall(i, metadata.contextDir \o <<"/">> \o ToTemplate(metadata.devfilePath))

getDevfileContent(i) ==
  getFileContentCall(i, metadata.contextDir \o <<"/">> \o ToTemplate(metadata.devfilePath))

getPackageJsonContent(i) ==
  getFileContentCall(i, metadata.contextDir \o <<"/">> \o <<"package.json">>)

\* A faulty variant of Settle: responses are taken to arrive in the order the
\* requests were made, so the outcome of call i is handed to the continuation
\* of the oldest call still waiting.
SettleInRequestOrder(i) ==
  /\ ret = NoReturn
  /\ calls[i].st = "pending"
  /\ LET oldest == CHOOSE j \in Slots :
                     /\ calls[j].st = "pending"
                     /\ \A k \in Slots : calls[k].st = "pending" => j <= k
     IN \E o \in (IF calls[i].req.sent THEN Outcomes ELSE {NoFetch}) :
          ret' = [op |-> calls[i].op, arg |-> calls[i].arg, req |-> calls[i].req,
                  outcome |-> o,
                  result |-> OpThen(calls[oldest].op, fetchJson(calls[oldest].req, o))]
  /\ calls' = [calls EXCEPT ![i] = Returned]
  /\ UNCHANGED config

\* The fetch of call i settles with outcome o; the operation resumes after its
\* await and runs to its return: its promise settles with the result.
Settle(i) ==
  /\ ret = NoReturn
  /\ calls[i].st = "pending"
  /\ \E o \in (IF calls[i].req.sent THEN Outcomes ELSE {NoFetch}) :
       ret' = [op |-> calls[i].op, arg |-> calls[i].arg, req |-> calls[i].req,
               outcome |-> o,
               result |-> OpThen(calls[i].op, fetchJson(calls[i].req, o))]
  /\ calls' = [calls EXCEPT ![i] = Returned]
  /\ UNCHANGED config

\* The caller's continuation takes the result (a microtask: it runs before the
\* next response is handled).
Receive ==
  /\ ret # NoReturn
  /\ ret' = NoReturn
  /\ UNCHANGED <<config, calls>>

Next ==
  \/ Receive
  \/ \E i \in Slots :
    \/ isRepoReachable(i)
    \/ getRepoBranchList(i)
    \/ getRepoFileList(i)
    \/ getRepoLanguageList(i)
    \/ isFilePresent(i)
    \/ getFileContent(i)
    \/ isDockerfilePresent(i)
    \/ isTektonFolderPresent(i)
    \/ getDockerfileContent(i)
    \/ isDevfilePresent(i)
    \/ getDevfileContent(i)
    \/ getPackageJsonContent(i)
    \/ Settle(i)

Spec == Init /\ [][Next]_vars

----------------------------------------------------------------------------
\* Vocabulary of the properties: the call that has just returned.

Returns(op) == ret.op = op
\* The value the call returned (every completion is a return, see C6).
Result == ret.result.val
\* The request got a response with a 2xx status.
Succeeded == ResponseOk(ret.outcome)
\* The request failed with HTTP status st.
FailedWith(st) == ret.outcome.kind = "response" /\ ~Succeeded /\ ret.outcome.status = st
\* What the network primitive made of the response (text or parsed JSON).
Data == fetchJson(ret.req, ret.outcome)
IsArrayOfStrings(x) == x.t = "array" /\ \A k \in 1..Len(x.v) : x.v[k].t = "string"

\* C1: isRepoReachable returns RateLimitExceeded iff the request failed with
\* HTTP 429, PrivateRepo iff it failed with 403, ResourceNotFound iff it
\* failed with 404; no success and no other failure yields one of the three.
C1_StatusMapping ==
  Returns("isRepoReachable") =>
    /\ ~ret.result.threw
    /\ Result.v = "RateLimitExceeded" <=> FailedWith(429)
    /\ Result.v = "PrivateRepo" <=> FailedWith(403)
    /\ Result.v = "ResourceNotFound" <=> FailedWith(404)

C1_Witness ==
  /\ Returns("isRepoReachable")
  /\ FailedWith(429)
  /\ Result = RepoStatus("RateLimitExceeded")

\* The response carries the adapter's repo name in its slug field.
CarriesRepoName ==
  /\ Succeeded
  /\ ~Data.threw
  /\ Data.val.t = "object"
  /\ "slug" \in DOMAIN Data.val.v
  /\ Data.val.v.slug = Str(<<metadata.repoName>>)

\* C2: isRepoReachable returns Reachable exactly when the request succeeds
\* and the response's slug equals the parsed repo name; every successful
\* response without a matching name (other slug, no slug, a body that is not
\* an object) yields Unreachable.
C2_ReachableElseUnreachable ==
  Returns("isRepoReachable") =>
    /\ Result.v = "Reachable" <=> CarriesRepoName
    /\ (Succeeded /\ ~CarriesRepoName) => Result.v = "Unreachable"

\* The list a list operation returned, under the field of its result type.
ListField(op) ==
  CASE op = "getRepoBranchList" -> "branches"
    [] op = "getRepoFileList" -> "files"
    [] op = "getRepoLanguageList" -> "languages"

ListOps == {"getRepoBranchList", "getRepoFileList", "getRepoLanguageList"}

ReturnedList == Result.v[ListField(ret.op)]

\* The data is a JSON object.
IsObjectData == ~Data.threw /\ Data.val.t = "object"

HasValuesArray ==
  /\ IsObjectData
  /\ "values" \in DOMAIN Data.val.v
  /\ Data.val.v.values.t = "array"

\* A successful response that is not what the operation expects: its body is
\* not a JSON object or, for branches and files, has no `values` array.
Malformed ==
  /\ Succeeded
  /\ IF Returns("getRepoLanguageList") THEN ~IsObjectData ELSE ~HasValuesArray

\* C3: the three list operations return an empty list, never undefined and
\* never a raised error, for every transport failure, non-2xx status and
\* malformed successful response, in SaaS and in self-hosted mode.
C3_EmptyListOnFailure ==
  (ret.op \in ListOps /\ (~Succeeded \/ Malformed)) =>
    /\ ~ret.result.threw
    /\ StrictEquals(ReturnedList, Arr(<<>>))

\* C4: isFilePresent returns true iff the GET succeeds with a 2xx status,
\* whatever the content type and whether or not the body parses as JSON.
C4_PresentIffSuccess ==
  Returns("isFilePresent") => (StrictEquals(Result, Bool(TRUE)) <=> Succeeded)


\* The self-hosted endpoint shape of operation op under the self-hosted base path.
ServerShaped(op, url) ==
  /\ Len(url) >= 7
  /\ SubSeq(url, 1, 3) = <<"https://", metadata.host, "/rest/api/1.0">>
  /\ url[4] = "/projects/" /\ url[6] = "/repos/"
  /\ CASE op \in {"isRepoReachable", "getRepoLanguageList"} -> Len(url) = 7
       [] op = "getRepoBranchList" -> Len(url) = 8 /\ url[8] = "/branches"
       [] op = "getRepoFileList" ->
            /\ Len(url) >= 10 /\ url[8] = "/files/"
            /\ \E k \in 9..Len(url) : url[k] = "?limit=50&at="
            /\ \A k \in 1..Len(url) : url[k] # "?pagelen=50"
       [] op \in {"isFilePresent", "getFileContent"} ->
            /\ Len(url) >= 10 /\ url[8] = "/raw/"
            /\ \E k \in 9..Len(url) : url[k] = "?at="

\* The SaaS endpoint shape of operation op under the SaaS base path.
SaaSShaped(op, url) ==
  /\ Len(url) >= 5
  /\ url[1] = "https://api.bitbucket.org/2.0"
  /\ url[2] = "/repositories/" /\ url[4] = "/"
  /\ CASE op \in {"isRepoReachable", "getRepoLanguageList"} -> Len(url) = 5
       [] op = "getRepoBranchList" -> Len(url) = 6 /\ url[6] = "/refs/branches"
       [] op = "getRepoFileList" ->
            /\ Len(url) >= 8 /\ url[6] = "/src/"
            /\ url[Len(url)] = "?pagelen=50"
            /\ \A k \in 1..Len(url) : url[k] # "?limit=50&at="
       [] op \in {"isFilePresent", "getFileContent"} ->
            /\ Len(url) >= 8 /\ url[6] = "/src/"
            /\ \A k \in 1..Len(url) : url[k] # "?at="

\* Every request on its way has the shape the host of the parsed URL calls for.
URLsFollowHost ==
  /\ isServer = (ParseBitbucketUrl(gitsource.url).host # "bitbucket.org")
  /\ metadata.host = ParseBitbucketUrl(gitsource.url).host
  /\ \A i \in Slots :
       (calls[i].st = "pending" /\ calls[i].req.sent) =>
         IF metadata.host # "bitbucket.org"
           THEN ServerShaped(calls[i].op, calls[i].req.url)
           ELSE SaaSShaped(calls[i].op, calls[i].req.url)

\* C5: the topology is decided at construction from the parsed host alone
\* (self-hosted iff the host is not 'bitbucket.org') and never changes; every
\* request URL of every operation has the self-hosted base path and shape
\* for any other host, and the SaaS base path and shape for 'bitbucket.org'.
C5_TopologyFixed ==
  /\ []URLsFollowHost
  /\ [][isServer' = isServer /\ baseURL' = baseURL /\ metadata' = metadata]_vars

C5_Witness ==
  /\ metadata.host = "www.bitbucket.org"
  /\ isServer
  /\ \E i \in Slots :
       /\ calls[i].st = "pending" /\ calls[i].op = "getRepoFileList"
       /\ calls[i].req.sent
       /\ ServerShaped("getRepoFileList", calls[i].req.url)
  /\ \E i \in Slots : calls[i].st = "returned"

\* The kind of value operation op is declared to return.
DefinedValue(op, x) ==
  CASE op = "isRepoReachable" -> x.t = "RepoStatus"
    [] op \in ListOps ->
         x.t = "object" /\ ListField(op) \in DOMAIN x.v /\ x.v[ListField(op)].t = "array"
    [] op = "isFilePresent" -> x.t = "boolean"
    [] op = "getFileContent" -> x.t \in {"string", "null"}

\* C6: no public operation propagates a transport error, an HTTP error or an
\* error raised while deriving auth headers or reading the response: for
\* every outcome of the fetch it completes with a defined value (a status, a
\* list, a boolean, or text/null).
C6_AlwaysDefinedValue ==
  ret.op # "none" => (~ret.result.threw /\ DefinedValue(ret.op, Result))

\* The part of C6 about propagation alone: no call ends by throwing.
NoErrorPropagates == ret.op # "none" => ~ret.result.threw

\* 'Basic dXNlcjpwYXNz' and the stored 'dXNlcg==' / 'cGFzcw==' as character codes.
BasicUserPass ==
  BasicPrefix \o <<100, 88, 78, 108, 99, 106, 112, 119, 89, 88, 78, 122>>
StoredUser == <<100, 88, 78, 108, 99, 103, 61, 61>>
StoredPass == <<99, 71, 70, 122, 99, 119, 61, 61>>

HasBasicSecret == gitsource.secretType = "BASIC_AUTH" /\ ~IsNullish(gitsource.secretContent)

\* The headers the auth descriptor calls for.
HeadersFollowDescriptor(headers) ==
  IF HasBasicSecret
    THEN /\ DOMAIN headers = {"Accept", "Authorization"}
         /\ headers.Accept = "application/json"
         /\ headers.Authorization =
              BasicPrefix \o Base64Encode(
                Base64Decode(gitsource.secretContent.v.username) \o <<Colon>>
                  \o Base64Decode(gitsource.secretContent.v.password))
         /\ (gitsource.secretContent.v.username = StoredUser
               /\ gitsource.secretContent.v.password = StoredPass)
              => headers.Authorization = BasicUserPass
    ELSE headers = [Accept |-> "application/json"]

\* C7: the auth headers are a function of the auth descriptor alone: for basic
\* auth exactly Authorization = 'Basic ' + encode(decode(username) + ':' +
\* decode(password)); for any other or absent kind none, so that the request
\* carries only the Accept header; every derivation gives the same result.
C7_AuthHeaders ==
  /\ \A i \in Slots :
       (calls[i].st = "pending" /\ calls[i].req.sent) =>
         HeadersFollowDescriptor(calls[i].req.headers)
  /\ (ret.op # "none" /\ ret.req.sent) => HeadersFollowDescriptor(ret.req.headers)
  /\ \A i \in Slots :
       calls[i].st = "pending" =>
         calls[i].req.sent = (gitsource.secretType = "BASIC_AUTH" => HasBasicSecret)

C7_Witness ==
  /\ gitsource.secretType = "BASIC_AUTH"
  /\ \A i \in Slots :
       /\ calls[i].st = "pending"
       /\ calls[i].req.sent
       /\ calls[i].req.headers.Authorization = BasicUserPass

\* C8: getFileContent returns the body as text whenever the GET succeeds,
\* whatever content type the server declares, and null whenever it fails;
\* never a value that is neither text nor null.
C8_TextOrNull ==
  Returns("getFileContent") =>
    /\ Result.t \in {"string", "null"}
    /\ Succeeded => StrictEquals(Result, Str(<<ret.outcome.body>>))
    /\ ~Succeeded => Result = Null

\* The response has a `language` field.
HasLanguage == IsObjectData /\ "language" \in DOMAIN Data.val.v

\* C9: getRepoLanguageList returns the one-element list of the response's
\* `language` when the request succeeds and the field is present, the empty
\* list when the request fails or the field is absent; the list never holds
\* an undefined element.
C9_LanguageList ==
  Returns("getRepoLanguageList") =>
    /\ ReturnedList.t = "array"
    /\ (Succeeded /\ HasLanguage) => ReturnedList.v = <<Data.val.v.language>>
    /\ ~(Succeeded /\ HasLanguage) => ReturnedList.v = <<>>
    /\ \A k \in 1..Len(ReturnedList.v) : ReturnedList.v[k].t # "undefined"

\* The `path` fields of a list of objects, in order.
RECURSIVE PathsOf(_)
PathsOf(entries) ==
  IF Len(entries) = 0 THEN <<>>
  ELSE <<entries[1].v.path>> \o PathsOf(Tail(entries))

\* The `values` of the response are the file names themselves.
ValuesAreNames == HasValuesArray /\ IsArrayOfStrings(Data.val.v.values)
\* The `values` of the response are objects with a `path` string.
ValuesHavePaths ==
  /\ HasValuesArray
  /\ \A k \in 1..Len(Data.val.v.values.v) :
       LET e == Data.val.v.values.v[k]
       IN e.t = "object" /\ "path" \in DOMAIN e.v /\ e.v.path.t = "string"

\* C10: getRepoFileList returns a flat list of path strings: self-hosted, the
\* response's `values` as is; SaaS, the `path` fields of its `values` in
\* order; in both modes a list of strings (empty on failure), never a list
\* of objects and never undefined.
C10_FlatFileList ==
  Returns("getRepoFileList") =>
    /\ ReturnedList.t = "array"
    /\ IsArrayOfStrings(ReturnedList)
    /\ (isServer /\ Succeeded /\ ValuesAreNames) => ReturnedList = Data.val.v.values
    /\ (~isServer /\ Succeeded /\ ValuesHavePaths) =>
         ReturnedList.v = PathsOf(Data.val.v.values.v)
    /\ ~Succeeded => ReturnedList.v = <<>>


\* The URL operation op requests when called with argument arg.
URLOf(op, arg) ==
  CASE op = "isRepoReachable" -> isRepoReachableURL
    [] op = "getRepoBranchList" -> getRepoBranchListURL
    [] op = "getRepoFileList" -> getRepoFileListURL(arg)
    [] op = "getRepoLanguageList" -> getRepoLanguageListURL
    [] op = "isFilePresent" -> isFilePresentURL(arg.v)
    [] op = "getFileContent" -> getFileContentURL(arg.v)

\* What operation op(arg) returns when it is the only call made on the
\* adapter and its fetch settles with outcome o.
ResultAlone(op, arg, o) == OpThen(op, fetchJson(fetchJsonRequest(URLOf(op, arg)), o))

\* Call i goes from waiting to returned in this step.
Returning(i) == calls[i].st = "pending" /\ calls'[i].st = "returned"

\* In a step that returns call i, the result is that of call i run alone on
\* its own outcome, and no other call is touched.
ReturnsOwnResult ==
  \A i \in Slots :
    Returning(i) =>
      /\ ret'.op = calls[i].op /\ ret'.arg = calls[i].arg
      /\ ret'.outcome \in (IF calls[i].req.sent THEN Outcomes ELSE {NoFetch})
      /\ ret'.result = ResultAlone(calls[i].op, calls[i].arg, ret'.outcome)
      /\ \A j \in Slots \ {i} : calls'[j] = calls[j]

\* C11: under every interleaving of concurrently issued operations, no
\* operation modifies the adapter's configuration (metadata, base URL,
\* self-hosted flag, auth descriptor), and the value each operation returns
\* depends only on the response to its own request: it is what the operation
\* would have returned alone, whatever the order in which the responses or
\* failures of the other calls arrive.
C11_CallsIndependent ==
  [][ /\ gitsource' = gitsource /\ metadata' = metadata
      /\ baseURL' = baseURL /\ isServer' = isServer
      /\ ReturnsOwnResult ]_vars

\* A later call has returned while an earlier call of another operation is
\* still waiting for its response.
C11_Witness ==
  /\ MaxCalls >= 2
  /\ calls[1].st = "pending" /\ calls[1].req.sent
  /\ calls[2].st = "returned"
  /\ ret.op \notin {"none", calls[1].op}
  /\ ret.outcome.kind = "response"

====
